---- MODULE Spec2Model ----
(***************************************************************************)
(* The packaging manifest client-examples/python/setup.py and the life of  *)
(* the distribution it declares: the manifest is evaluated in a build      *)
(* directory (setup() receives constants and the result of                 *)
(* find_packages()), the metadata is parsed into a distribution, and the   *)
(* distribution is installed into a clean environment by an installer that *)
(* honours Requires-Python and resolves install_requires against a package *)
(* index.                                                                  *)
(*                                                                         *)
(* Strings the packaging tools parse are sequences of one-character        *)
(* strings, so that parsing is computed and can fail.  Versions are        *)
(* release tuples (sequences of naturals) as in PEP 440; what the          *)
(* packaging tools do with the manifest's arguments (reading requirement   *)
(* strings, ordering versions, refusing an interpreter, resolving          *)
(* dependencies) follows PEP 440 / PEP 508 and an installer that honours   *)
(* Requires-Python, restricted to release versions.                        *)
(***************************************************************************)
EXTENDS Naturals, Integers, Sequences, FiniteSets, TLC

\* ------------------------------------------------------------------ bounds
\* Interpreter versions range over 2..MaxMajor x 7..MaxMinor.
MaxMinor == 12

MaxMajor == 3

\* ------------------------------------------------- the manifest's literals
\* The name spelt as an importable module would be.
name_underscored == "novita_api_client"

\* setup(name=...)
name == "novita-api-client"

\* A version with the patch component left out.
version_short == <<"1",".","0">>

\* setup(version=...)
version == <<"1",".","0",".","0">>

description == "Python client for Novita GPU Instance API"

\* A dependency list that names requests twice, with constraints that
\* exclude each other.
install_requires_dup ==
    << <<"r","e","q","u","e","s","t","s",">","=","2",".","3","1",".","0">>,
       <<"p","y","t","h","o","n","-","d","o","t","e","n","v",">","=","1",".","0",".","0">>,
       <<"r","e","q","u","e","s","t","s","<","2",".","0",".","0">> >>

\* A dependency list whose first minimum carries a pre-release suffix.
install_requires_rc ==
    << <<"r","e","q","u","e","s","t","s",">","=","2",".","3","1",".","0","r","c","1">>,
       <<"p","y","t","h","o","n","-","d","o","t","e","n","v",">","=","1",".","0",".","0">> >>

\* setup(install_requires=[...])
install_requires ==
    << <<"r","e","q","u","e","s","t","s",">","=","2",".","3","1",".","0">>,
       <<"p","y","t","h","o","n","-","d","o","t","e","n","v",">","=","1",".","0",".","0">> >>

\* An interpreter constraint one minor version too low.
python_requires_37 == <<">","=","3",".","7">>

\* An interpreter constraint one minor version too high.
python_requires_39 == <<">","=","3",".","9">>

\* setup(python_requires=...)
python_requires == <<">","=","3",".","8">>

author == "Novita API Team"

author_email == "support@novita.ai"

url == "https://github.com/novita/gpu-instance-api"

\* A classifier list that advertises 3.7.
classifiers_37 ==
    << <<"D","e","v","e","l","o","p","m","e","n","t"," ","S","t","a","t","u","s"," ",":",":"," ","5"," ","-"," ","P","r","o","d","u","c","t","i","o","n","/","S","t","a","b","l","e">>,
       <<"P","r","o","g","r","a","m","m","i","n","g"," ","L","a","n","g","u","a","g","e"," ",":",":"," ","P","y","t","h","o","n"," ",":",":"," ","3">>,
       <<"P","r","o","g","r","a","m","m","i","n","g"," ","L","a","n","g","u","a","g","e"," ",":",":"," ","P","y","t","h","o","n"," ",":",":"," ","3",".","7">>,
       <<"P","r","o","g","r","a","m","m","i","n","g"," ","L","a","n","g","u","a","g","e"," ",":",":"," ","P","y","t","h","o","n"," ",":",":"," ","3",".","8">> >>

\* setup(classifiers=[...])
classifiers ==
    << <<"D","e","v","e","l","o","p","m","e","n","t"," ","S","t","a","t","u","s"," ",":",":"," ","5"," ","-"," ","P","r","o","d","u","c","t","i","o","n","/","S","t","a","b","l","e">>,
       <<"I","n","t","e","n","d","e","d"," ","A","u","d","i","e","n","c","e"," ",":",":"," ","D","e","v","e","l","o","p","e","r","s">>,
       <<"L","i","c","e","n","s","e"," ",":",":"," ","O","S","I"," ","A","p","p","r","o","v","e","d"," ",":",":"," ","M","I","T"," ","L","i","c","e","n","s","e">>,
       <<"P","r","o","g","r","a","m","m","i","n","g"," ","L","a","n","g","u","a","g","e"," ",":",":"," ","P","y","t","h","o","n"," ",":",":"," ","3">>,
       <<"P","r","o","g","r","a","m","m","i","n","g"," ","L","a","n","g","u","a","g","e"," ",":",":"," ","P","y","t","h","o","n"," ",":",":"," ","3",".","8">>,
       <<"P","r","o","g","r","a","m","m","i","n","g"," ","L","a","n","g","u","a","g","e"," ",":",":"," ","P","y","t","h","o","n"," ",":",":"," ","3",".","9">>,
       <<"P","r","o","g","r","a","m","m","i","n","g"," ","L","a","n","g","u","a","g","e"," ",":",":"," ","P","y","t","h","o","n"," ",":",":"," ","3",".","1","0">>,
       <<"P","r","o","g","r","a","m","m","i","n","g"," ","L","a","n","g","u","a","g","e"," ",":",":"," ","P","y","t","h","o","n"," ",":",":"," ","3",".","1","1">> >>

\* --------------------------------------------------- character-level parsing
Digits == {"0","1","2","3","4","5","6","7","8","9"}

Letters ==
    {"a","b","c","d","e","f","g","h","i","j","k","l","m","n","o","p","q","r","s","t","u","v","w","x","y","z",
     "A","B","C","D","E","F","G","H","I","J","K","L","M","N","O","P","Q","R","S","T","U","V","W","X","Y","Z"}

\* Characters a distribution name may contain (PEP 508).
NameChars == Letters \cup Digits \cup {"-", "_", "."}

\* Comparison operators of a version specifier (PEP 440), two-character
\* operators first: the longest operator is the one that is read.
Operators2 == { <<"~","=">>, <<"=","=">>, <<"!","=">>, <<"<","=">>, <<">","=">> }

Operators1 == { <<"<">>, <<">">> }

DigitVal(c) ==
    CHOOSE n \in 0..9 : <<"0","1","2","3","4","5","6","7","8","9">>[n + 1] = c

\* Length of the longest prefix of s made of characters of cs.
PrefixLen(s, cs) ==
    CHOOSE n \in 0..Len(s) :
        /\ \A i \in 1..n : s[i] \in cs
        /\ n = Len(s) \/ s[n + 1] \notin cs

RECURSIVE ParseNat(_)
\* Decimal value of a string of digits.
ParseNat(ds) ==
    IF ds = <<>> THEN 0
    ELSE ParseNat(SubSeq(ds, 1, Len(ds) - 1)) * 10 + DigitVal(ds[Len(ds)])

RECURSIVE SplitOn(_, _)
\* s cut at every occurrence of the character c.
SplitOn(s, c) ==
    LET n == PrefixLen(s, {s[i] : i \in 1..Len(s)} \ {c})
    IN  IF n = Len(s) THEN << s >>
        ELSE << SubSeq(s, 1, n) >> \o SplitOn(SubSeq(s, n + 2, Len(s)), c)

\* A release version N(.N)*: ok tells whether the text is one, release is
\* its tuple of numbers.
ParseVersion(s) ==
    LET parts == SplitOn(s, ".")
        good  == \A i \in 1..Len(parts) :
                    /\ parts[i] # <<>>
                    /\ \A j \in 1..Len(parts[i]) : parts[i][j] \in Digits
    IN  [ok |-> good,
         release |-> IF good THEN [i \in 1..Len(parts) |-> ParseNat(parts[i])]
                     ELSE <<>>]

\* A version specifier: an operator followed by a version.
ParseSpecifier(s) ==
    LET oplen == IF Len(s) >= 2 /\ SubSeq(s, 1, 2) \in Operators2 THEN 2
                 ELSE IF Len(s) >= 1 /\ SubSeq(s, 1, 1) \in Operators1 THEN 1
                 ELSE 0
        v     == ParseVersion(SubSeq(s, oplen + 1, Len(s)))
    IN  [ok |-> oplen > 0 /\ v.ok,
         op |-> SubSeq(s, 1, oplen),
         release |-> v.release]

\* A requirement string: a distribution name followed by a specifier.
ParseRequirement(s) ==
    LET n  == PrefixLen(s, NameChars)
        sp == ParseSpecifier(SubSeq(s, n + 1, Len(s)))
    IN  [ok |-> /\ n > 0
                /\ s[1] \in Letters \cup Digits
                /\ s[n] \in Letters \cup Digits
                /\ sp.ok,
         name |-> SubSeq(s, 1, n),
         op |-> sp.op,
         release |-> sp.release]

\* ------------------------------------------------------- version ordering
Component(v, i) == IF i <= Len(v) THEN v[i] ELSE 0

RECURSIVE CmpFrom(_, _, _)
CmpFrom(a, b, i) ==
    IF i > Len(a) /\ i > Len(b) THEN 0
    ELSE IF Component(a, i) < Component(b, i) THEN -1
    ELSE IF Component(a, i) > Component(b, i) THEN 1
    ELSE CmpFrom(a, b, i + 1)

\* Tuple comparison without zero padding: a proper prefix is smaller.
CmpRelease_nopad(a, b) ==
    LET c == CmpFrom(a, b, 1)
    IN  IF c # 0 THEN c
        ELSE IF Len(a) < Len(b) THEN -1
        ELSE IF Len(a) > Len(b) THEN 1
        ELSE 0

\* Order of two release tuples, the shorter one padded with zeros:
\* -1, 0 or 1.
CmpRelease(a, b) == CmpFrom(a, b, 1)

\* A specifier read as a strict lower bound.
SpecifierContains_strict(sp, v) ==
    LET c == CmpRelease(v, sp.release)
    IN  c > 0

\* Does the specifier sp (parsed) accept the version v?
SpecifierContains(sp, v) ==
    LET c == CmpRelease(v, sp.release)
        n == Len(sp.release)
    IN  CASE sp.op = <<">","=">> -> c >= 0
          [] sp.op = <<"<","=">> -> c <= 0
          [] sp.op = <<"=","=">> -> c = 0
          [] sp.op = <<"!","=">> -> c # 0
          [] sp.op = <<">">>     -> c > 0
          [] sp.op = <<"<">>     -> c < 0
          [] sp.op = <<"~","=">> ->
                /\ c >= 0
                /\ \A i \in 1..(n - 1) : Component(v, i) = sp.release[i]
          [] OTHER -> FALSE

\* ------------------------------------------------------------ the manifest
\* Directories of a build directory that may hold an __init__.py, as paths.
DirNodes == { <<"novita_client">>, <<"novita_client", "utils">> }

\* find_packages(): the directories holding an __init__.py all of whose
\* ancestors hold one too (the walk does not descend into a directory that
\* is not a package).  d is the set of directories holding an __init__.py.
find_packages(d) ==
    { p \in d : \A k \in 1..(Len(p) - 1) : SubSeq(p, 1, k) \in d }

\* A manifest whose version depends on what the build directory holds.
setup_versioned(d) ==
    [name |-> name,
     version |-> IF find_packages(d) = {} THEN <<"0",".","0",".","0">> ELSE version,
     description |-> description,
     packages |-> find_packages(d),
     install_requires |-> install_requires,
     python_requires |-> python_requires,
     author |-> author,
     author_email |-> author_email,
     url |-> url,
     classifiers |-> classifiers]

\* The keyword arguments of the setup() call, evaluated in a build
\* directory whose package directories are d.
setup(d) ==
    [name |-> name,
     version |-> version,
     description |-> description,
     packages |-> find_packages(d),
     install_requires |-> install_requires,
     python_requires |-> python_requires,
     author |-> author,
     author_email |-> author_email,
     url |-> url,
     classifiers |-> classifiers]

\* ------------------------------------------------------------------- state
Envs == {"A", "B"}

PyVersions == { <<M, m>> : M \in 2..MaxMajor, m \in 7..MaxMinor }

Requests == <<"r","e","q","u","e","s","t","s">>

PythonDotenv == <<"p","y","t","h","o","n","-","d","o","t","e","n","v">>

\* Versions a package index may offer of each declared dependency.
Offered ==
    (Requests :> { <<2,4,0>>, <<2,31>> }) @@
    (PythonDotenv :> { <<0,21,1>>, <<1,0,0>> })

NoDist ==
    [name |-> "", version |-> <<>>, requires_python |-> ParseSpecifier(<<>>),
     requires_dist |-> <<>>, packages |-> {}, classifiers |-> <<>>]

VARIABLES
    pyver,      \* the interpreter of the machine, <<major, minor>>
    index,      \* the package index: distribution name -> versions offered
    dir,        \* per build directory: the directories holding __init__.py
    pc,         \* per build directory: how far build and install have come
    meta,       \* per build directory: the arguments setup() was called with
    dist,       \* per build directory: the built distribution's metadata
    accepted,   \* per environment: dependency -> versions its specifiers accept
    site        \* per environment: installed dependency -> version

vars == <<pyver, index, dir, pc, meta, dist, accepted, site>>

Init ==
    /\ pyver \in PyVersions
    /\ index \in { i \in [DOMAIN Offered -> SUBSET UNION {Offered[n] : n \in DOMAIN Offered}] :
                     \A n \in DOMAIN Offered : i[n] \subseteq Offered[n] }
    /\ dir \in [Envs -> SUBSET DirNodes]
    /\ pc = [e \in Envs |-> "start"]
    /\ meta = [e \in Envs |-> <<>>]
    /\ dist = [e \in Envs |-> NoDist]
    /\ accepted = [e \in Envs |-> <<>>]
    /\ site = [e \in Envs |-> <<>>]

\* ----------------------------------------------------------------- actions
\* The manifest is run in build directory e: setup() is called once.
RunSetup(e) ==
    /\ pc[e] = "start"
    /\ meta' = [meta EXCEPT ![e] = setup(dir[e])]
    /\ pc' = [pc EXCEPT ![e] = "evaluated"]
    /\ UNCHANGED <<pyver, index, dir, dist, accepted, site>>

\* Is every version-bearing argument well formed for the packaging tool?
MetadataValid(m) ==
    /\ ParseVersion(m.version).ok
    /\ ParseSpecifier(m.python_requires).ok
    /\ \A i \in 1..Len(m.install_requires) : ParseRequirement(m.install_requires[i]).ok

\* The packaging tool turns the arguments into a distribution; malformed
\* metadata is an error at build time.
Build(e) ==
    /\ pc[e] = "evaluated"
    /\ IF MetadataValid(meta[e])
       THEN /\ dist' = [dist EXCEPT ![e] =
                   [name |-> meta[e].name,
                    version |-> ParseVersion(meta[e].version).release,
                    requires_python |-> ParseSpecifier(meta[e].python_requires),
                    requires_dist |-> [i \in 1..Len(meta[e].install_requires) |->
                                          ParseRequirement(meta[e].install_requires[i])],
                    packages |-> meta[e].packages,
                    classifiers |-> meta[e].classifiers]]
            /\ pc' = [pc EXCEPT ![e] = "built"]
       ELSE /\ pc' = [pc EXCEPT ![e] = "error"]
            /\ UNCHANGED dist
    /\ UNCHANGED <<pyver, index, dir, meta, accepted, site>>

\* Versions of the distribution n the index offers.
IndexLookup(n) == IF n \in DOMAIN index THEN index[n] ELSE {}

\* Names the distribution d depends on.
RequiredNames(d) == { d.requires_dist[i].name : i \in 1..Len(d.requires_dist) }

\* Versions of n on the index that every requirement of d on n accepts.
Candidates(d, n) ==
    { v \in IndexLookup(n) :
        \A i \in 1..Len(d.requires_dist) :
            d.requires_dist[i].name = n => SpecifierContains(d.requires_dist[i], v) }

\* The newest of a non-empty set of versions.
Newest(vs) == CHOOSE v \in vs : \A w \in vs : CmpRelease(v, w) >= 0

\* The built distribution is installed into the clean environment of e: the
\* installer refuses an interpreter outside Requires-Python, then resolves
\* every dependency to the newest version its specifiers accept, and fails
\* when a dependency has none.
Install(e) ==
    /\ pc[e] = "built"
    /\ IF ~SpecifierContains(dist[e].requires_python, pyver)
       THEN /\ pc' = [pc EXCEPT ![e] = "refused"]
            /\ UNCHANGED <<accepted, site>>
       ELSE LET names == RequiredNames(dist[e])
                cand  == [n \in names |-> Candidates(dist[e], n)]
            IN  /\ accepted' = [accepted EXCEPT ![e] = cand]
                /\ IF \A n \in names : cand[n] # {}
                   THEN /\ site' = [site EXCEPT ![e] = [n \in names |-> Newest(cand[n])]]
                        /\ pc' = [pc EXCEPT ![e] = "installed"]
                   ELSE /\ pc' = [pc EXCEPT ![e] = "error"]
                        /\ UNCHANGED site
    /\ UNCHANGED <<pyver, index, dir, meta, dist>>

Next ==
    \E e \in Envs :
        \/ RunSetup(e)
        \/ Build(e)
        \/ Install(e)

Spec == Init /\ [][Next]_vars

\* ------------------------------------------------------------ properties
\* The build or install in e has come to an end.
Done(e) == pc[e] \in {"installed", "refused", "error"}

\* v >= m component by component, the shorter tuple padded with zeros:
\* the tuples are equal, or v is greater at the first place they differ.
VersionGE(v, m) ==
    LET n == IF Len(v) > Len(m) THEN Len(v) ELSE Len(m)
        at(x, i) == IF i <= Len(x) THEN x[i] ELSE 0
    IN  \/ \A i \in 1..n : at(v, i) = at(m, i)
        \/ \E i \in 1..n : /\ at(v, i) > at(m, i)
                           /\ \A j \in 1..(i - 1) : at(v, j) = at(m, j)

\* The minimum each dependency is declared with.
DeclaredMinimum == (Requests :> <<2,31,0>>) @@ (PythonDotenv :> <<1,0,0>>)

\* A number without a leading zero.
PlainNumber(t) ==
    /\ t # <<>>
    /\ \A i \in 1..Len(t) : t[i] \in Digits
    /\ Len(t) > 1 => t[1] # "0"

\* major.minor.patch, each a number without a leading zero, nothing else.
IsSemVer(s) ==
    \E i \in 2..Len(s), j \in 3..Len(s) :
        /\ i < j /\ j < Len(s)
        /\ s[i] = "." /\ s[j] = "."
        /\ PlainNumber(SubSeq(s, 1, i - 1))
        /\ PlainNumber(SubSeq(s, i + 1, j - 1))
        /\ PlainNumber(SubSeq(s, j + 1, Len(s)))

\* Numbers separated by single dots.
DottedNumeric(t) ==
    /\ t # <<>>
    /\ \A i \in 1..Len(t) : t[i] \in Digits \cup {"."}
    /\ t[1] # "." /\ t[Len(t)] # "."
    /\ \A i \in 1..(Len(t) - 1) : ~(t[i] = "." /\ t[i + 1] = ".")

\* name operator version, with nothing left over: the name is s[1..i], the
\* operator the one or two characters after it, the version the rest.
IsRequirementString(s) ==
    \E i \in 1..Len(s), n \in {1, 2} :
        /\ i + n < Len(s)
        /\ SubSeq(s, i + 1, i + n) \in Operators2 \cup Operators1
        /\ \A k \in 1..i : s[k] \in Letters \cup Digits \cup {"-"}
        /\ DottedNumeric(SubSeq(s, i + n + 1, Len(s)))

LanguagePrefix == <<"P","r","o","g","r","a","m","m","i","n","g"," ","L","a","n","g","u","a","g","e"," ",":",":"," ","P","y","t","h","o","n"," ",":",":"," ">>

\* The interpreter versions X.Y the classifiers cs name.
ClassifierVersions(cs) ==
    LET n == Len(LanguagePrefix)
        rest(c) == SubSeq(c, n + 1, Len(c))
    IN  { ParseVersion(rest(cs[i])).release :
            i \in { k \in 1..Len(cs) :
                      /\ Len(cs[k]) > n
                      /\ \A j \in 1..n : cs[k][j] = LanguagePrefix[j]
                      /\ \E j \in (n + 1)..Len(cs[k]) : cs[k][j] = "." } }

\* C1: every evaluation of the manifest declares one package, named
\* novita-api-client at version 1.0.0, and the distribution built from it
\* carries that name and that version.
C1_NameAndVersion ==
    \A e \in Envs :
        /\ pc[e] # "start" =>
              /\ meta[e].name = "novita-api-client"
              /\ meta[e].version = <<"1",".","0",".","0">>
        /\ pc[e] \in {"built", "installed", "refused"} =>
              /\ dist[e].name = "novita-api-client"
              /\ dist[e].version = <<1, 0, 0>>

C1_Witness ==
    \E e \in Envs : pc[e] = "built" /\ dist[e].name = "novita-api-client"

\* C2: the built distribution requires exactly requests >= 2.31.0 and
\* python-dotenv >= 1.0.0, and once its dependencies were resolved, a version
\* the index offers was accepted if and only if it is >= the declared
\* minimum component by component.
C2_MinimumOnly ==
    \A e \in Envs :
        /\ dist[e] # NoDist =>
              /\ Len(dist[e].requires_dist) = 2
              /\ RequiredNames(dist[e]) = {Requests, PythonDotenv}
              /\ \A i \in 1..2 :
                    /\ dist[e].requires_dist[i].op = <<">", "=">>
                    /\ dist[e].requires_dist[i].release =
                          DeclaredMinimum[dist[e].requires_dist[i].name]
        /\ (dist[e] # NoDist /\ pc[e] \in {"installed", "error"}) =>
              /\ DOMAIN accepted[e] = {Requests, PythonDotenv}
              /\ \A n \in DOMAIN accepted[e] : \A v \in index[n] :
                    v \in accepted[e][n] <=> VersionGE(v, DeclaredMinimum[n])

C2_Witness ==
    \E e \in Envs :
        /\ pc[e] \in {"installed", "error"}
        /\ index[Requests] = { <<2,4,0>>, <<2,31>> }
        /\ accepted[e][Requests] = { <<2,31>> }

\* C3: the manifest declares python_requires ">=3.8", and an install that
\* came to an end was refused for the interpreter if and only if the
\* interpreter is below 3.8.
C3_InterpreterRange ==
    \A e \in Envs :
        /\ pc[e] # "start" => meta[e].python_requires = <<">", "=", "3", ".", "8">>
        /\ (dist[e] # NoDist /\ Done(e)) =>
              (pc[e] # "refused" <=> VersionGE(pyver, <<3, 8>>))

C3_Witness ==
    \E e \in Envs : pyver = <<3, 12>> /\ pc[e] = "installed"

\* C4: the version the manifest declares is major.minor.patch, three
\* numbers without leading zeros and nothing else.
C4_SemVer ==
    \A e \in Envs : pc[e] # "start" => IsSemVer(meta[e].version)

C4_Witness ==
    \E e \in Envs :
        pc[e] = "evaluated" /\ ParseVersion(meta[e].version).release = <<1, 0, 0>>

\* C5: every entry of install_requires is a name of letters, digits and
\* hyphens, a comparison operator and a dotted numeric version with nothing
\* left over, and the packaging tool reads every entry: the build does not
\* fail on them.
C5_RequirementStrings ==
    \A e \in Envs :
        /\ pc[e] # "start" =>
              \A i \in 1..Len(meta[e].install_requires) :
                  IsRequirementString(meta[e].install_requires[i])
        /\ ~(pc[e] = "error" /\ dist[e] = NoDist)
        /\ dist[e] # NoDist =>
              Len(dist[e].requires_dist) = Len(meta[e].install_requires)

C5_Witness ==
    \E e \in Envs :
        /\ pc[e] = "built"
        /\ dist[e].requires_dist[2].name = PythonDotenv
        /\ dist[e].requires_dist[1].release = <<2, 31, 0>>

\* C6: python_requires is a valid specifier, and the package is installed
\* only on an interpreter that is at least 3.8.
C6_NoInstallBelowMinimum ==
    \A e \in Envs :
        /\ pc[e] # "start" => ParseSpecifier(meta[e].python_requires).ok
        /\ pc[e] = "installed" => VersionGE(pyver, <<3, 8>>)

C6_Witness ==
    \E e \in Envs : pyver = <<3, 7>> /\ pc[e] = "refused"

\* The index offers, of every declared dependency, a version that meets
\* its declared minimum.
IndexMeetsMinimums ==
    \A n \in DOMAIN DeclaredMinimum :
        \E v \in index[n] : VersionGE(v, DeclaredMinimum[n])

\* In e both dependencies are installed at versions meeting their minimums.
InstalledWithMinimums(e) ==
    /\ pc[e] = "installed"
    /\ DOMAIN site[e] = DOMAIN DeclaredMinimum
    /\ \A n \in DOMAIN site[e] : VersionGE(site[e][n], DeclaredMinimum[n])

C8_SameMetadata ==
    \A e1, e2 \in Envs :
        (pc[e1] # "start" /\ pc[e2] # "start") => meta[e1] = meta[e2]

\* C8 as amended: two evaluations of the manifest in two build directories
\* produce the same metadata except for the list of packages, which is
\* found in the build directory: it names only directories of that
\* directory, and is the same when the two directories hold the same ones.
C8_SameMetadataButPackages ==
    \A e1, e2 \in Envs :
        (pc[e1] # "start" /\ pc[e2] # "start") =>
            /\ DOMAIN meta[e1] = DOMAIN meta[e2]
            /\ \A f \in DOMAIN meta[e1] \ {"packages"} : meta[e1][f] = meta[e2][f]
            /\ meta[e1].packages \subseteq dir[e1]
            /\ dir[e1] = dir[e2] => meta[e1].packages = meta[e2].packages

C8_Witness ==
    /\ pc["A"] # "start" /\ pc["B"] # "start"
    /\ meta["A"].packages = {}
    /\ meta["B"].packages = DirNodes

\* C9: the classifiers name the interpreter versions 3.8, 3.9, 3.10 and
\* 3.11; python_requires accepts each of them, the lowest of them is the
\* declared minimum, and no install is refused on one of them.
C9_ClassifiersConsistent ==
    \A e \in Envs :
        pc[e] # "start" =>
            LET vs == ClassifierVersions(meta[e].classifiers)
                sp == ParseSpecifier(meta[e].python_requires)
            IN  /\ vs = { <<3, 8>>, <<3, 9>>, <<3, 10>>, <<3, 11>> }
                /\ \A v \in vs : SpecifierContains(sp, v)
                /\ sp.release \in vs
                /\ \A v \in vs : VersionGE(v, sp.release)
                /\ pc[e] = "refused" => pyver \notin vs

C9_Witness ==
    \E e \in Envs :
        /\ pyver = <<3, 10>>
        /\ pc[e] = "installed"
        /\ pyver \in ClassifierVersions(dist[e].classifiers)

\* Every version some index may offer.
AllOffered == UNION { Offered[n] : n \in DOMAIN Offered }

\* C10: no name appears twice among the requirements of the built
\* distribution, and some choice of one version per dependency meets every
\* requirement.
C10_WellFormedSet ==
    \A e \in Envs :
        dist[e] # NoDist =>
            /\ Cardinality(RequiredNames(dist[e])) = Len(dist[e].requires_dist)
            /\ \E a \in [RequiredNames(dist[e]) -> AllOffered] :
                  \A i \in 1..Len(dist[e].requires_dist) :
                      SpecifierContains(dist[e].requires_dist[i],
                                        a[dist[e].requires_dist[i].name])

C10_Witness ==
    \E e \in Envs :
        /\ dist[e] # NoDist
        /\ Cardinality(RequiredNames(dist[e])) = 2
        /\ Cardinality(DOMAIN site[e]) = 2

====
